---- MODULE Spec2Model ----
(***************************************************************************)
(* Model of updstraight (src/main.go): one process run lists the straight  *)
(* repositories, starts one goroutine per repository that moves the        *)
(* Updated.At tag to the head, pulls, and counts the commits after the     *)
(* tag; main waits for all goroutines and restarts emacs when the flag     *)
(* restartEmacsIsNeeded is set.  Repository state (commits, head, tags)    *)
(* persists from one run of the process to the next.                       *)
(***************************************************************************)
EXTENDS Integers, Sequences, FiniteSets, TLC

\* ---------------------------------------------------------------- bounds
NRepos == 2        \* directories the glob can return
MaxCommits == 2    \* commits that ever exist in one repository
MaxTime == 2       \* latest committer timestamp, in seconds
MaxRuns == 2       \* consecutive runs of the process

\* ------------------------------------------------------- program constants
TagName == "Updated.At"
OtherTag == "other"
TagNames == {TagName, OtherTag}

Repos == 1..NRepos
Times == 0..MaxTime
NilRef == [name |-> "", hash |-> 0]

VARIABLES
  commits,     \* [Repos -> Seq([parent, when])]: every commit of the repository's origin
  head,        \* [Repos -> commit]: local HEAD
  tags,        \* [Repos -> [TagNames -> commit or 0]]: local refs/tags
  run,         \* number of the current process run
  mainPc,      \* position of main
  repos,       \* number of paths returned by ListEmacsStraightRepos
  spawned,     \* loop index of main's range over repos
  wg,          \* WaitGroup counter
  restartEmacsIsNeeded,
  cmds,        \* restart commands started in this run, with their outcome
  exitCode,    \* -1 while running, else the exit status
  pc,          \* [Repos -> position of the worker goroutine]
  headRef,     \* [Repos -> hash the worker read from r.Head()]
  tagRef,      \* [Repos -> reference returned by CreateOrModifyGitTag]
  n,           \* [Repos -> the worker's commit counter]
  logErr,      \* [Repos -> err returned by GetGitLog (never inspected)]
  pullOut,     \* [Repos -> outcome of w.Pull in this run]
  pullRes,     \* [Repos -> (changed, err) returned by PullGitChanges]
  failed,      \* [Repos -> the step of the worker that failed in this run]
  tagAtStart,  \* [Repos -> hash of the Updated.At tag when the run started]
  prevRunHead, \* [Repos -> head when the previous run ended, 0 before the first]
  call         \* arguments and results of a call of CreateOrModifyGitTag made
               \* on its own (SpecTag); NoCall in the runs of the program

vars == <<commits, head, tags, run, mainPc, repos, spawned, wg,
          restartEmacsIsNeeded, cmds, exitCode, pc, headRef, tagRef, n,
          logErr, pullOut, pullRes, failed, tagAtStart, prevRunHead, call>>

repoVars == <<commits, head, tags>>
mainVars == <<run, mainPc, repos, spawned, wg, cmds, exitCode>>
workerVars == <<pc, headRef, tagRef, n, logErr, pullOut, pullRes, failed>>
histVars == <<tagAtStart, prevRunHead, call>>

\* ------------------------------------------------------------ commit graph
RECURSIVE IsAncestor(_, _, _)
\* a is b or an ancestor of b in the commit sequence cs
IsAncestor(cs, a, b) ==
  IF b = 0 THEN FALSE
  ELSE IF a = b THEN TRUE
  ELSE IsAncestor(cs, a, cs[b].parent)

RemoteTip(cs) == Len(cs)

\* ------------------------------------------------- go-git calls (the library)
RECURSIVE LogWalk(_, _, _)
\* r.Log(&git.LogOptions{Since: &t}): the commits reachable from HEAD, in
\* traversal order, that are not before `since`
LogWalk(cs, c, since) ==
  IF c = 0 THEN <<>>
  ELSE (IF cs[c].when >= since THEN <<c>> ELSE <<>>)
       \o LogWalk(cs, cs[c].parent, since)

\* outcomes w.Pull can have for local head h against the origin's tip
PullOutcomes(cs, h) ==
  {"FetchError"} \cup
  (IF IsAncestor(cs, RemoteTip(cs), h) THEN {"AlreadyUpToDate"}
   ELSE IF IsAncestor(cs, h, RemoteTip(cs)) THEN {"FastForward", "ResetError"}
   ELSE {"NonFastForward"})

\* HEAD after a pull with PullOptions{Force: true}
PullHeadForce(cs, h, o) ==
  IF o \in {"FastForward", "ResetError", "NonFastForward"} THEN RemoteTip(cs) ELSE h

\* HEAD after w.Pull ended with outcome o
PullHead(cs, h, o) ==
  IF o \in {"FastForward", "ResetError"} THEN RemoteTip(cs) ELSE h

\* ------------------------------------------------------- pure functions
\* CreateOrModifyGitTag whose CASE 2 builds the reference and never stores it
CreateOrModifyGitTagNoStore(tg, t, h, lookupFails, storeFails) ==
  IF lookupFails
    THEN [tags |-> tg, ref |-> NilRef, err |-> FALSE]
  ELSE IF tg[t] # 0
    THEN IF storeFails
           THEN [tags |-> tg, ref |-> NilRef, err |-> TRUE]
           ELSE [tags |-> [tg EXCEPT ![t] = h],
                 ref |-> [name |-> t, hash |-> h], err |-> FALSE]
  ELSE IF storeFails \/ tg[TagName] # 0
    THEN [tags |-> tg, ref |-> NilRef, err |-> TRUE]
    ELSE [tags |-> tg, ref |-> [name |-> TagName, hash |-> h], err |-> FALSE]

\* CreateOrModifyGitTag whose CASE 2 creates the tag under the name t
CreateOrModifyGitTagNamed(tg, t, h, lookupFails, storeFails) ==
  IF lookupFails
    THEN [tags |-> tg, ref |-> NilRef, err |-> FALSE]
  ELSE IF tg[t] # 0
    THEN IF storeFails
           THEN [tags |-> tg, ref |-> NilRef, err |-> TRUE]
           ELSE [tags |-> [tg EXCEPT ![t] = h],
                 ref |-> [name |-> t, hash |-> h], err |-> FALSE]
  ELSE IF storeFails
    THEN [tags |-> tg, ref |-> NilRef, err |-> TRUE]
    ELSE [tags |-> [tg EXCEPT ![t] = h],
          ref |-> [name |-> t, hash |-> h], err |-> FALSE]

\* CreateOrModifyGitTag(r, t, ref): tg is the repository's tag store, h is
\* ref.Hash(); lookupFails: r.Tag(t) fails with an error other than
\* ErrTagNotFound; storeFails: SetReference or CreateTag fails
CreateOrModifyGitTag(tg, t, h, lookupFails, storeFails) ==
  IF lookupFails
    THEN [tags |-> tg, ref |-> NilRef, err |-> FALSE]
  ELSE IF tg[t] # 0
    THEN IF storeFails
           THEN [tags |-> tg, ref |-> NilRef, err |-> TRUE]
           ELSE [tags |-> [tg EXCEPT ![t] = h],
                 ref |-> [name |-> t, hash |-> h], err |-> FALSE]
  ELSE IF storeFails \/ tg[TagName] # 0
    THEN [tags |-> tg, ref |-> NilRef, err |-> TRUE]
    ELSE [tags |-> [tg EXCEPT ![TagName] = h],
          ref |-> [name |-> TagName, hash |-> h], err |-> FALSE]

\* PullGitChanges with the pull's error passed on to the caller
PullGitChangesPropagating(worktreeFails, o) ==
  IF worktreeFails THEN [changed |-> FALSE, err |-> TRUE]
  ELSE IF o = "AlreadyUpToDate" THEN [changed |-> FALSE, err |-> FALSE]
  ELSE IF o = "FastForward" THEN [changed |-> TRUE, err |-> FALSE]
  ELSE [changed |-> FALSE, err |-> TRUE]

\* PullGitChanges(r): worktreeFails: r.Worktree() fails; o: outcome of w.Pull
PullGitChanges(worktreeFails, o) ==
  IF worktreeFails THEN [changed |-> FALSE, err |-> TRUE]
  ELSE IF o = "AlreadyUpToDate" THEN [changed |-> FALSE, err |-> FALSE]
  ELSE [changed |-> TRUE, err |-> FALSE]

\* LogOptions.Since without the second added to the tagged commit's time
SinceOfNoOffset(cs, ref) == cs[ref.hash].when

\* the time GetGitLog passes as LogOptions.Since
SinceOf(cs, ref) == cs[ref.hash].when + 1

\* GetGitLog(r, ref, n): hd is the repository's HEAD at the call; fail is the
\* library call that fails ("none", "commit", "log", "iter"); seen is the
\* number of commits the callback saw before an iteration failure
GetGitLog(cs, hd, ref, fail, seen) ==
  IF ref = NilRef THEN [n |-> 0, err |-> FALSE, panic |-> TRUE]
  ELSE IF fail \in {"commit", "log"} THEN [n |-> 0, err |-> TRUE, panic |-> FALSE]
  ELSE IF fail = "iter" THEN [n |-> seen, err |-> TRUE, panic |-> FALSE]
  ELSE [n |-> Len(LogWalk(cs, hd, SinceOf(cs, ref))), err |-> FALSE, panic |-> FALSE]

\* a WaitGroup whose Wait never blocks (the wg.Add(1) of the loop left out)
WaitPassesNoAdd == TRUE

\* wg.Wait() returns
WaitPasses == wg = 0

\* the process is running
Alive == mainPc \notin {"idle", "exit"}

NoTags == [t \in TagNames |-> 0]

NoCall == [pre |-> NoTags, t |-> "", h |-> 0, lookupFails |-> FALSE,
           storeFails |-> FALSE, ref |-> NilRef, err |-> FALSE]

\* ------------------------------------------------------------------ Init
\* freshly cloned repositories of one commit (made at second 1: only the
\* differences between committer times matter), no tag, no process running
Init ==
  /\ commits = [r \in Repos |-> <<[parent |-> 0, when |-> 1]>>]
  /\ head = [r \in Repos |-> 1]
  /\ tags = [r \in Repos |-> NoTags]
  /\ run = 0
  /\ mainPc = "idle"
  /\ repos = 0
  /\ spawned = 0
  /\ wg = 0
  /\ restartEmacsIsNeeded = FALSE
  /\ cmds = <<>>
  /\ exitCode = -1
  /\ pc = [r \in Repos |-> "none"]
  /\ headRef = [r \in Repos |-> 0]
  /\ tagRef = [r \in Repos |-> NilRef]
  /\ n = [r \in Repos |-> 0]
  /\ logErr = [r \in Repos |-> FALSE]
  /\ pullOut = [r \in Repos |-> "none"]
  /\ pullRes = [r \in Repos |-> [changed |-> FALSE, err |-> FALSE]]
  /\ failed = [r \in Repos |-> "none"]
  /\ tagAtStart = [r \in Repos |-> 0]
  /\ prevRunHead = [r \in Repos |-> 0]
  /\ call = NoCall

\* ------------------------------------------------------------ environment
\* somebody pushes a commit with committer time t to the origin of repository
\* r: on top of the origin's tip, or, with a forced push, on an older commit
\* p or as a new root (p = 0); the new commit is the origin's tip.  The
\* program reads the origin only in w.Pull, so pushes are taken before the
\* run starts.
RemotePush(r, p, t) ==
  /\ mainPc = "idle"
  /\ Len(commits[r]) < MaxCommits
  /\ p <= Len(commits[r])
  /\ commits' = [commits EXCEPT ![r] =
                   Append(@, [parent |-> p, when |-> t])]
  /\ UNCHANGED <<head, tags, mainVars, restartEmacsIsNeeded, workerVars, histVars>>

\* the user starts the program
StartRun ==
  /\ mainPc = "idle"
  /\ run < MaxRuns
  /\ run' = run + 1
  /\ mainPc' = "list"
  /\ tagAtStart' = [r \in Repos |-> tags[r][TagName]]
  /\ prevRunHead' = IF run = 0 THEN prevRunHead ELSE head
  /\ UNCHANGED <<repoVars, repos, spawned, wg, cmds, exitCode,
                 restartEmacsIsNeeded, workerVars, call>>

\* the ended process is gone: nothing of it outlives the run but the
\* repositories
Reap ==
  /\ mainPc = "exit"
  /\ mainPc' = "idle"
  /\ repos' = 0
  /\ spawned' = 0
  /\ wg' = 0
  /\ restartEmacsIsNeeded' = FALSE
  /\ cmds' = <<>>
  /\ exitCode' = -1
  /\ pc' = [r \in Repos |-> "none"]
  /\ headRef' = [r \in Repos |-> 0]
  /\ tagRef' = [r \in Repos |-> NilRef]
  /\ n' = [r \in Repos |-> 0]
  /\ logErr' = [r \in Repos |-> FALSE]
  /\ pullOut' = [r \in Repos |-> "none"]
  /\ pullRes' = [r \in Repos |-> [changed |-> FALSE, err |-> FALSE]]
  /\ failed' = [r \in Repos |-> "none"]
  /\ UNCHANGED <<repoVars, run, histVars>>

\* the process ends with status code
Exit(code) ==
  /\ mainPc' = "exit"
  /\ exitCode' = code

\* log.Fatal(err) in a worker: os.Exit(1), no deferred call runs
Fatal(w, step) ==
  /\ Exit(1)
  /\ failed' = [failed EXCEPT ![w] = step]
  /\ UNCHANGED <<run, repos, spawned, wg, cmds>>

\* ------------------------------------------------------------------ main
Commands == <<"emacsclient -e (kill-emacs)", "emacs -nw --daemon">>

\* ListEmacsStraightRepos(): the glob matches k directories, or the home
\* directory is unknown
ListEmacsStraightRepos(k, ok) ==
  /\ mainPc = "list"
  /\ IF ok
       THEN /\ repos' = k
            /\ mainPc' = "spawn"
            /\ UNCHANGED exitCode
       ELSE /\ Exit(1)
            /\ UNCHANGED repos
  /\ UNCHANGED <<repoVars, run, spawned, wg, cmds, restartEmacsIsNeeded,
                 workerVars, histVars>>

\* one iteration of main's loop: wg.Add(1); go UpdateEmacsStraightRepo(v, wg)
Spawn ==
  /\ mainPc = "spawn"
  /\ spawned < repos
  /\ spawned' = spawned + 1
  /\ wg' = wg + 1
  /\ pc' = [pc EXCEPT ![spawned + 1] = "open"]
  /\ UNCHANGED <<repoVars, run, mainPc, repos, cmds, exitCode,
                 restartEmacsIsNeeded, headRef, tagRef, n, logErr, pullOut,
                 pullRes, failed, histVars>>

\* wg.Wait() returns after the loop
Wait ==
  /\ mainPc = "spawn"
  /\ spawned = repos
  /\ WaitPasses
  /\ mainPc' = "check"
  /\ UNCHANGED <<repoVars, run, repos, spawned, wg, cmds, exitCode,
                 restartEmacsIsNeeded, workerVars, histVars>>

\* if restartEmacsIsNeeded { restartEmacs() }
CheckFlag ==
  /\ mainPc = "check"
  /\ mainPc' = IF restartEmacsIsNeeded THEN "restart" ELSE "return"
  /\ UNCHANGED <<repoVars, run, repos, spawned, wg, cmds, exitCode,
                 restartEmacsIsNeeded, workerVars, histVars>>

\* restartEmacs going on to the next command whatever runCommand returned
runCommandNoFatal(ok) ==
  /\ mainPc = "restart"
  /\ cmds' = Append(cmds, [cmd |-> Commands[Len(cmds) + 1], ok |-> ok])
  /\ mainPc' = IF Len(cmds) + 1 = Len(Commands) THEN "return" ELSE "restart"
  /\ UNCHANGED exitCode
  /\ UNCHANGED <<repoVars, run, repos, spawned, wg, restartEmacsIsNeeded,
                 workerVars, histVars>>

\* one iteration of restartEmacs: runCommand of the next command, which
\* succeeds or fails
runCommand(ok) ==
  /\ mainPc = "restart"
  /\ cmds' = Append(cmds, [cmd |-> Commands[Len(cmds) + 1], ok |-> ok])
  /\ IF ~ok THEN Exit(1)
     ELSE /\ mainPc' = IF Len(cmds) + 1 = Len(Commands) THEN "return" ELSE "restart"
          /\ UNCHANGED exitCode
  /\ UNCHANGED <<repoVars, run, repos, spawned, wg, restartEmacsIsNeeded,
                 workerVars, histVars>>

\* main returns: the process exits with status 0
Return ==
  /\ mainPc = "return"
  /\ Exit(0)
  /\ UNCHANGED <<repoVars, run, repos, spawned, wg, cmds,
                 restartEmacsIsNeeded, workerVars, histVars>>

\* -------------------------------------------- UpdateEmacsStraightRepo(p, wg)
\* git.PlainOpen(p)
PlainOpen(w, ok) ==
  /\ Alive /\ pc[w] = "open"
  /\ IF ok THEN /\ pc' = [pc EXCEPT ![w] = "head"]
                /\ UNCHANGED <<mainVars, failed>>
     ELSE Fatal(w, "open") /\ UNCHANGED pc
  /\ UNCHANGED <<repoVars, restartEmacsIsNeeded, headRef, tagRef, n, logErr,
                 pullOut, pullRes, histVars>>

\* r.Head()
ReadHead(w, ok) ==
  /\ Alive /\ pc[w] = "head"
  /\ IF ok THEN /\ pc' = [pc EXCEPT ![w] = "remote"]
                /\ headRef' = [headRef EXCEPT ![w] = head[w]]
                /\ UNCHANGED <<mainVars, failed>>
     ELSE Fatal(w, "head") /\ UNCHANGED <<pc, headRef>>
  /\ UNCHANGED <<repoVars, restartEmacsIsNeeded, tagRef, n, logErr,
                 pullOut, pullRes, histVars>>

\* r.Remote("origin")
ReadRemote(w, ok) ==
  /\ Alive /\ pc[w] = "remote"
  /\ IF ok THEN /\ pc' = [pc EXCEPT ![w] = "tag"]
                /\ UNCHANGED <<mainVars, failed>>
     ELSE Fatal(w, "remote") /\ UNCHANGED pc
  /\ UNCHANGED <<repoVars, restartEmacsIsNeeded, headRef, tagRef, n, logErr,
                 pullOut, pullRes, histVars>>

\* the worker tagging the tip of the origin instead of the head it read
MarkerTargetOrigin(w) == RemoteTip(commits[w])

\* the reference the worker passes to CreateOrModifyGitTag: the head it read
MarkerTarget(w) == headRef[w]

\* tag, err = CreateOrModifyGitTag(r, TagName, head)
MoveTag(w, lookupFails, storeFails) ==
  /\ Alive /\ pc[w] = "tag"
  /\ LET res == CreateOrModifyGitTag(tags[w], TagName, MarkerTarget(w),
                                     lookupFails, storeFails)
     IN /\ tags' = [tags EXCEPT ![w] = res.tags]
        /\ IF res.err
             THEN Fatal(w, "marker") /\ UNCHANGED <<pc, tagRef>>
             ELSE /\ pc' = [pc EXCEPT ![w] = "pull"]
                  /\ tagRef' = [tagRef EXCEPT ![w] = res.ref]
                  /\ failed' = [failed EXCEPT ![w] =
                                  IF lookupFails THEN "marker" ELSE @]
                  /\ UNCHANGED mainVars
  /\ UNCHANGED <<commits, head, restartEmacsIsNeeded, headRef, n, logErr,
                 pullOut, pullRes, histVars>>

\* _, err = PullGitChanges(r)
PullStep(w, worktreeFails, o) ==
  /\ Alive /\ pc[w] = "pull"
  /\ o \in PullOutcomes(commits[w], head[w])
  /\ LET res == PullGitChanges(worktreeFails, o)
     IN /\ pullRes' = [pullRes EXCEPT ![w] = res]
        /\ pullOut' = [pullOut EXCEPT ![w] =
                         IF worktreeFails THEN "NotCalled" ELSE o]
        /\ head' = [head EXCEPT ![w] =
                      IF worktreeFails THEN @ ELSE PullHead(commits[w], @, o)]
        /\ IF res.err
             THEN Fatal(w, "pull") /\ UNCHANGED pc
             ELSE /\ pc' = [pc EXCEPT ![w] = "log"]
                  /\ failed' = [failed EXCEPT ![w] =
                                  IF @ = "none" /\ o \notin {"AlreadyUpToDate", "FastForward"}
                                    THEN "pull" ELSE @]
                  /\ UNCHANGED mainVars
  /\ UNCHANGED <<commits, tags, restartEmacsIsNeeded, headRef, tagRef, n,
                 logErr, histVars>>

\* l, err = GetGitLog(r, tag, &n); a nil tag panics, the deferred wg.Done()
\* runs and the runtime then ends the process
LogStep(w, fail, seen) ==
  /\ Alive /\ pc[w] = "log"
  /\ LET res == GetGitLog(commits[w], head[w], tagRef[w], fail, seen)
     IN /\ seen <= IF tagRef[w] = NilRef THEN 0
                    ELSE Len(LogWalk(commits[w], head[w],
                                     SinceOf(commits[w], tagRef[w])))
        /\ (fail = "iter" \/ seen = 0)
        /\ n' = [n EXCEPT ![w] = res.n]
        /\ logErr' = [logErr EXCEPT ![w] = res.err]
        /\ failed' = [failed EXCEPT ![w] =
                        IF @ = "none" /\ res.err THEN "log" ELSE @]
        /\ IF res.panic
             THEN /\ pc' = [pc EXCEPT ![w] = "panicked"]
                  /\ wg' = wg - 1
             ELSE /\ pc' = [pc EXCEPT ![w] = "report"]
                  /\ UNCHANGED wg
  /\ UNCHANGED <<repoVars, run, mainPc, repos, spawned, cmds, exitCode,
                 restartEmacsIsNeeded, headRef, tagRef, pullOut, pullRes,
                 histVars>>

\* the report step written as restartEmacsIsNeeded = n > 0
ReportAssign(w) ==
  /\ Alive /\ pc[w] = "report"
  /\ restartEmacsIsNeeded' = (n[w] > 0)
  /\ pc' = [pc EXCEPT ![w] = "return"]
  /\ UNCHANGED <<repoVars, mainVars, headRef, tagRef, n, logErr, pullOut,
                 pullRes, failed, histVars>>

\* if n > 0 { restartEmacsIsNeeded = true; print the report }
Report(w) ==
  /\ Alive /\ pc[w] = "report"
  /\ restartEmacsIsNeeded' = IF n[w] > 0 THEN TRUE ELSE restartEmacsIsNeeded
  /\ pc' = [pc EXCEPT ![w] = "return"]
  /\ UNCHANGED <<repoVars, mainVars, headRef, tagRef, n, logErr, pullOut,
                 pullRes, failed, histVars>>

\* the worker returning without the deferred wg.Done()
DoneNotDeferred(w) ==
  /\ Alive /\ pc[w] = "return"
  /\ pc' = [pc EXCEPT ![w] = "done"]
  /\ UNCHANGED <<repoVars, mainVars, restartEmacsIsNeeded, headRef, tagRef,
                 n, logErr, pullOut, pullRes, failed, histVars>>

\* the worker returns: deferred wg.Done()
Done(w) ==
  /\ Alive /\ pc[w] = "return"
  /\ wg' = wg - 1
  /\ pc' = [pc EXCEPT ![w] = "done"]
  /\ UNCHANGED <<repoVars, run, mainPc, repos, spawned, cmds, exitCode,
                 restartEmacsIsNeeded, headRef, tagRef, n, logErr, pullOut,
                 pullRes, failed, histVars>>

\* the runtime ends the process after the panic of worker w: status 2
Crash(w) ==
  /\ Alive /\ pc[w] = "panicked"
  /\ Exit(2)
  /\ UNCHANGED <<repoVars, run, repos, spawned, wg, cmds,
                 restartEmacsIsNeeded, workerVars, histVars>>

UpdateEmacsStraightRepo(w) ==
  \/ \E ok \in BOOLEAN : PlainOpen(w, ok)
  \/ \E ok \in BOOLEAN : ReadHead(w, ok)
  \/ \E ok \in BOOLEAN : ReadRemote(w, ok)
  \/ \E lf, sf \in BOOLEAN : MoveTag(w, lf, sf)
  \/ \E wf \in BOOLEAN, o \in PullOutcomes(commits[w], head[w]) : PullStep(w, wf, o)
  \/ \E fail \in {"none", "commit", "log", "iter"}, seen \in 0..MaxCommits :
       LogStep(w, fail, seen)
  \/ Report(w)
  \/ Done(w)
  \/ Crash(w)

main ==
  \/ \E k \in 0..NRepos, ok \in BOOLEAN : ListEmacsStraightRepos(k, ok)
  \/ Spawn
  \/ Wait
  \/ CheckFlag
  \/ \E ok \in BOOLEAN : runCommand(ok)
  \/ Return

Next ==
  \/ StartRun
  \/ Reap
  \/ \E r \in Repos, p \in 0..MaxCommits, t \in Times : RemotePush(r, p, t)
  \/ main
  \/ \E w \in Repos : UpdateEmacsStraightRepo(w)

Spec == Init /\ [][Next]_vars

\* the runs under fair scheduling: every library call and command returns,
\* so main and every goroutine take their next step when they have one;
\* nothing obliges the user to start a run or anybody to push
FairSpec ==
  /\ Spec
  /\ WF_vars(main)
  /\ \A w \in Repos : WF_vars(UpdateEmacsStraightRepo(w))

\* ------------------------------------------- CreateOrModifyGitTag on its own
\* a repository (the first) with any tags at any commits, no process running
InitTag ==
  /\ commits = [r \in Repos |-> <<[parent |-> 0, when |-> 1]>>]
  /\ head = [r \in Repos |-> 1]
  /\ tags \in {[r \in Repos |-> IF r = 1 THEN tg ELSE NoTags] :
                 tg \in [TagNames -> 0..MaxCommits]}
  /\ run = 0
  /\ mainPc = "idle"
  /\ repos = 0
  /\ spawned = 0
  /\ wg = 0
  /\ restartEmacsIsNeeded = FALSE
  /\ cmds = <<>>
  /\ exitCode = -1
  /\ pc = [r \in Repos |-> "none"]
  /\ headRef = [r \in Repos |-> 0]
  /\ tagRef = [r \in Repos |-> NilRef]
  /\ n = [r \in Repos |-> 0]
  /\ logErr = [r \in Repos |-> FALSE]
  /\ pullOut = [r \in Repos |-> "none"]
  /\ pullRes = [r \in Repos |-> [changed |-> FALSE, err |-> FALSE]]
  /\ failed = [r \in Repos |-> "none"]
  /\ tagAtStart = [r \in Repos |-> 0]
  /\ prevRunHead = [r \in Repos |-> 0]
  /\ call = NoCall

\* CreateOrModifyGitTag(r, t, ref) called on the first repository with tag
\* name t and a reference whose hash is h
TagCall(t, h, lookupFails, storeFails) ==
  LET res == CreateOrModifyGitTag(tags[1], t, h, lookupFails, storeFails)
  IN /\ tags' = [tags EXCEPT ![1] = res.tags]
     /\ call' = [pre |-> tags[1], t |-> t, h |-> h,
                 lookupFails |-> lookupFails, storeFails |-> storeFails,
                 ref |-> res.ref, err |-> res.err]
     /\ UNCHANGED <<commits, head, mainVars, restartEmacsIsNeeded,
                    workerVars, tagAtStart, prevRunHead>>

NextTag ==
  \E t \in TagNames, h \in 1..MaxCommits, lf, sf \in BOOLEAN :
    TagCall(t, h, lf, sf)

SpecTag == InitTag /\ [][NextTag]_vars

\* =================================================================== claims
\* vocabulary of the claims
Workers == 1..repos
Marker(r) == tags[r][TagName]
Finished(w) == pc[w] \in {"done", "panicked"}
Counted(w) == pc[w] \in {"report", "return", "done"}
RECURSIVE Distance(_, _, _)
\* number of commits on the first-parent path from b back to (excluding) a
Distance(cs, a, b) ==
  IF b = 0 \/ a = b THEN 0 ELSE 1 + Distance(cs, a, cs[b].parent)

\* k: the commits the pull of worker w brought in
NewCommits(w) == Distance(commits[w], headRef[w], head[w])
PastBarrier == mainPc \in {"check", "restart", "return"} \/ cmds # <<>>
CleanRun == \A w \in Workers : failed[w] = "none"

\* C1: the restart commands are started at most once per run, in their
\* order, and main is past wg.Wait() (or has started a restart command) only
\* when every worker it started has run its deferred wg.Done().
C1_RestartOnceAfterAllWorkers ==
  /\ Len(cmds) <= Len(Commands)
  /\ \A i \in 1..Len(cmds) : cmds[i].cmd = Commands[i]
  /\ PastBarrier => spawned = repos /\ \A w \in Workers : Finished(w)

\* C1 witness: both restart commands ran after two workers finished
C1_Witness ==
  /\ Len(cmds) = Len(Commands)
  /\ repos = NRepos
  /\ \A w \in Workers : pc[w] = "done"

\* C2 as claimed: after a completed sync cycle, none of whose steps failed
\* and whose pull brought in new commits, the marker points at the new head.
C2_MarkerAtNewHead ==
  \A w \in Workers :
    pc[w] = "done" /\ failed[w] = "none" /\ NewCommits(w) > 0 =>
      Marker(w) = head[w]

\* C2 amended: after a completed sync cycle whose pull brought in new
\* commits the marker points at the head the worker read before the pull,
\* a proper ancestor of the new head.
C2_MarkerAtOldHead ==
  \A w \in Workers :
    pc[w] = "done" /\ NewCommits(w) > 0 =>
      /\ Marker(w) = headRef[w]
      /\ Marker(w) # head[w]
      /\ IsAncestor(commits[w], Marker(w), head[w])

\* C2 witness: in a second run a worker has completed a cycle whose pull
\* fast-forwarded the head past an existing marker
C2_Witness ==
  \E w \in Workers :
    pc[w] = "done" /\ NewCommits(w) > 0 /\ tagAtStart[w] # 0

\* C3 as claimed: when no step of the worker failed and its pull brought in
\* k commits (k >= 0), the worker's count n is k.
C3_CountIsNewCommits ==
  \A w \in Workers :
    Counted(w) /\ failed[w] = "none" => n[w] = NewCommits(w)

\* C4 as claimed: in a run in which no step of any worker failed, after the
\* barrier the flag is set iff some repository got new commits, and the
\* workers with a non-zero count are as many as the repositories that got
\* new commits.
C4_FlagIffNewCommits ==
  PastBarrier /\ CleanRun /\ (\A w \in Workers : pc[w] = "done") =>
    /\ restartEmacsIsNeeded = (\E w \in Workers : NewCommits(w) > 0)
    /\ Cardinality({w \in Workers : n[w] > 0})
         = Cardinality({w \in Workers : NewCommits(w) > 0})

\* C5 as claimed: a worker whose repository was already at the origin's tip
\* gets changed = false from PullGitChanges and counts 0 commits.
C5_UpToDateCountsZero ==
  \A w \in Workers :
    Counted(w) /\ failed[w] = "none" /\ headRef[w] = RemoteTip(commits[w]) =>
      /\ pullRes[w].changed = FALSE
      /\ n[w] = 0

\* C6: in every state the marker, when it exists, is a commit of the
\* repository that is the head or an ancestor of the head.
C6_MarkerAncestorOfHead ==
  \A r \in Repos :
    Marker(r) # 0 =>
      /\ Marker(r) \in 1..Len(commits[r])
      /\ IsAncestor(commits[r], Marker(r), head[r])

\* C6 witness: in the middle of a worker the head is ahead of the marker
C6_Witness ==
  \E w \in Workers :
    /\ pc[w] = "log"
    /\ Marker(w) # 0
    /\ Marker(w) # head[w]
    /\ tagAtStart[w] # 0

\* C7: every step that moves an existing marker is the tagging step of that
\* repository's worker, sets it to the head the repository had when the
\* previous run ended, and never to a proper ancestor of its old target;
\* every step that creates it is that tagging step too.
C7_MarkerMove ==
  [][\A r \in Repos :
       Marker(r)' # Marker(r) =>
         /\ pc[r] = "tag" /\ pc'[r] = "pull" /\ r \in Workers
         /\ Marker(r) # 0 =>
              /\ prevRunHead[r] # 0
              /\ Marker(r)' = prevRunHead[r]
              /\ IsAncestor(commits[r], Marker(r), Marker(r)')]_vars

\* C7 witness: a worker has moved a marker that existed when the run started
C7_Witness ==
  \E w \in Workers : tagAtStart[w] # 0 /\ Marker(w) # tagAtStart[w]

\* C8 as claimed: once a step of a worker has failed (open, head, remote,
\* marker, pull) the process has ended with a non-zero status and no restart
\* command was started.
C8_FailureIsFatal ==
  (\E w \in Workers : failed[w] \in {"open", "head", "remote", "marker", "pull"}) =>
    /\ mainPc = "exit"
    /\ exitCode > 0
    /\ cmds = <<>>

\* C9: PullGitChanges returns (false, nil) exactly for already-up-to-date,
\* (true, nil) for every other outcome of the pull, errors included, and an
\* error only when the worktree could not be obtained.
C9_PullGitChanges ==
  \A w \in Workers :
    pullOut[w] # "none" =>
      /\ pullRes[w].err = (pullOut[w] = "NotCalled")
      /\ pullRes[w].changed = (pullOut[w] \notin {"NotCalled", "AlreadyUpToDate"})

\* C9 witness: a failed pull was reported as changed, without error, and the
\* worker went on
C9_Witness ==
  \E w \in Workers :
    /\ pullOut[w] = "FetchError"
    /\ pullRes[w] = [changed |-> TRUE, err |-> FALSE]
    /\ Counted(w)

\* C10 as claimed: a run in which no step failed and which ended with
\* status 0 started the restart commands iff some pull moved a head.
C10_RestartIffChanged ==
  mainPc = "exit" /\ exitCode = 0 /\ CleanRun =>
    (cmds # <<>>) = (\E w \in Workers : NewCommits(w) > 0)

\* the call of SpecTag was made and neither the lookup nor the store failed
CallWorked == call # NoCall /\ ~call.lookupFails /\ ~call.storeFails
\* the call left every tag but name as it was
OthersKept(name) == \A u \in TagNames \ {name} : tags[1][u] = call.pre[u]

\* C11 as claimed: a call whose lookup and store work moves an existing tag
\* t to ref's hash; when t does not exist it leaves a tag Updated.At at
\* ref's hash, for every t; it returns that tag and changes no other tag.
C11_TagAtRef ==
  CallWorked =>
    LET name == IF call.pre[call.t] # 0 THEN call.t ELSE TagName
    IN /\ tags[1][name] = call.h
       /\ call.ref = [name |-> name, hash |-> call.h]
       /\ ~call.err
       /\ OthersKept(name)

\* C11 amended: as claimed when t exists, and when neither t nor Updated.At
\* exists; when t does not exist and Updated.At does (t is another name),
\* the call returns an error with a nil reference and changes no tag.
C11_TagAtRefUnlessExists ==
  CallWorked =>
    LET name == IF call.pre[call.t] # 0 THEN call.t ELSE TagName
    IN IF call.pre[call.t] = 0 /\ call.pre[TagName] # 0
         THEN /\ call.err
              /\ call.ref = NilRef
              /\ tags[1] = call.pre
         ELSE /\ tags[1][name] = call.h
              /\ call.ref = [name |-> name, hash |-> call.h]
              /\ ~call.err
              /\ OthersKept(name)

\* C11 witness: a call with a name other than Updated.At, in a repository
\* without tags, created Updated.At and left the other name absent
C11_Witness ==
  /\ CallWorked
  /\ call.t = OtherTag
  /\ call.pre = NoTags
  /\ tags[1][TagName] = call.h
  /\ tags[1][OtherTag] = 0

\* C12: a failure of the reference store inside CreateOrModifyGitTag ends
\* the process with a non-zero status at the tagging step: the worker never
\* goes on to the pull after it, and never holds a nil tag reference with a
\* nil error.
C12_TagFailureIsFatal ==
  \A w \in Workers :
    /\ failed[w] = "marker" =>
         mainPc = "exit" /\ exitCode > 0 /\ pc[w] = "tag"
    /\ pc[w] \in {"pull", "log", "report", "return", "done", "panicked"} =>
         tagRef[w] # NilRef

\* C13: restartEmacs runs only with the flag set and all workers finished;
\* the commands run in the order of Commands, a command starts only after
\* every earlier one succeeded, a failed command is the last one run and
\* ends the process with a non-zero status, and main returns from
\* restartEmacs only after both commands ran.
C13_RestartInOrder ==
  /\ Len(cmds) <= Len(Commands)
  /\ \A i \in 1..Len(cmds) :
       /\ cmds[i].cmd = Commands[i]
       /\ i < Len(cmds) => cmds[i].ok
       /\ ~cmds[i].ok => mainPc = "exit" /\ exitCode > 0
  /\ (mainPc = "restart" \/ cmds # <<>>) =>
       restartEmacsIsNeeded /\ \A w \in Workers : Finished(w)
  /\ mainPc = "return" /\ restartEmacsIsNeeded =>
       Len(cmds) = Len(Commands) /\ \A i \in 1..Len(cmds) : cmds[i].ok
  /\ mainPc = "exit" /\ exitCode = 0 /\ restartEmacsIsNeeded =>
       Len(cmds) = Len(Commands) /\ \A i \in 1..Len(cmds) : cmds[i].ok

\* C13 witness: the terminate command failed; the process ended with status
\* 1 and the relaunch command was not started
C13_Witness ==
  /\ mainPc = "exit"
  /\ exitCode = 1
  /\ cmds = <<[cmd |-> Commands[1], ok |-> FALSE]>>

\* a step of worker w (of its goroutine) is taken
WorkerStepped(w) ==
  /\ Alive /\ pc[w] # "none"
  /\ pc'[w] # pc[w] \/ failed'[w] # failed[w]

\* the repository and the locals of worker v
OwnState(v) ==
  <<commits[v], head[v], tags[v], pc[v], headRef[v], tagRef[v], n[v],
    logErr[v], pullOut[v], pullRes[v], failed[v]>>

\* C14: a step of one worker changes neither the repository nor the locals
\* of another worker; while the process lives the flag never goes from true
\* to false, and it changes only in the report step of a worker; main is at
\* its test of the flag only when all workers have finished.
C14_FlagOnlySharedState ==
  [][/\ \A w \in Repos : WorkerStepped(w) =>
          \A v \in Repos \ {w} : OwnState(v)' = OwnState(v)
     /\ restartEmacsIsNeeded /\ ~restartEmacsIsNeeded' =>
          mainPc = "exit" /\ mainPc' = "idle"
     /\ ~restartEmacsIsNeeded /\ restartEmacsIsNeeded' =>
          \E w \in Workers : pc[w] = "report" /\ pc'[w] = "return"
     /\ mainPc' = "check" => \A w \in Workers : Finished(w)']_vars

\* C14 witness: a worker that counted commits and a worker that counted none
\* have both gone through their report step, and the flag is set
C14_Witness ==
  /\ restartEmacsIsNeeded
  /\ \E w, v \in Workers :
       /\ pc[w] \in {"return", "done"} /\ n[w] > 0
       /\ pc[v] \in {"return", "done"} /\ n[v] = 0

\* C15: a worker whose GetGitLog returned an error never sets the flag, and
\* a process in which a GetGitLog returned an error ends with a non-zero
\* status.
C15_LogFailureIsFatal ==
  /\ \A w \in Workers :
       logErr[w] => ~(n[w] > 0 /\ pc[w] \in {"return", "done"})
  /\ mainPc = "exit" /\ (\E w \in Workers : logErr[w]) => exitCode > 0

\* the commits reachable from commit hd of repository r
Reachable(r, hd) == {c \in 1..Len(commits[r]) : IsAncestor(commits[r], c, hd)}
\* seconds from the committer time of commit b to that of commit c
Later(r, c, b) == commits[r][c].when - commits[r][b].when

\* C16: a worker whose GetGitLog succeeded counted exactly the commits
\* reachable from its repository's head whose committer time is at least
\* one second after that of the commit of the reference passed, whatever
\* their ancestry; the reference's own commit is not among them.
C16_CountByCommitterTime ==
  \A w \in Workers :
    Counted(w) /\ ~logErr[w] =>
      n[w] = Cardinality({c \in Reachable(w, head[w]) :
                            Later(w, c, tagRef[w].hash) >= 1})

\* C16 witness: GetGitLog succeeded and counted a proper ancestor of the
\* reference's commit, whose committer time is later than that commit's
C16_Witness ==
  \E w \in Workers :
    /\ Counted(w) /\ ~logErr[w] /\ n[w] > 0
    /\ \E c \in Reachable(w, tagRef[w].hash) :
         c # tagRef[w].hash /\ Later(w, c, tagRef[w].hash) >= 1

\* C17: the step that ends the process and every step taken while no
\* process lives leave the head and the tags of every repository as they
\* are; a worker counts only after the marker is at the head it read, which
\* in a later run is the head the previous run left.
C17_MutationsStay ==
  [][/\ mainPc' \in {"exit", "idle"} => head' = head /\ tags' = tags
     /\ mainPc = "idle" => head' = head /\ tags' = tags
     /\ \A r \in Repos :
          pc[r] = "log" /\ pc'[r] = "report" =>
            /\ Marker(r) = headRef[r]
            /\ n[r] = 0
            /\ run > 1 => headRef[r] = prevRunHead[r]]_vars

\* C17 witness: the fatal error of one worker ended the process while
\* another worker had moved its marker and pulled new commits, and had not
\* yet reported them or set the flag
C17_Witness ==
  /\ mainPc = "exit" /\ exitCode = 1
  /\ ~restartEmacsIsNeeded
  /\ \E w, v \in Workers :
       /\ w # v
       /\ \/ pc[w] = "open" /\ failed[w] = "open"
          \/ pc[w] = "head" /\ failed[w] = "head"
          \/ pc[w] = "remote" /\ failed[w] = "remote"
          \/ pc[w] = "tag" /\ failed[w] = "marker"
          \/ pc[w] = "pull" /\ failed[w] = "pull"
       /\ pc[v] \in {"log", "report"}
       /\ failed[v] = "none"
       /\ Marker(v) = headRef[v]
       /\ Marker(v) # tagAtStart[v]
       /\ head[v] # headRef[v]

\* C19: a worker past its tagging step has written the marker: the marker
\* is at the head the worker read before the pull and stays there through
\* the pull, the enumeration and the report, and the reference the worker
\* holds for GetGitLog is the marker at that head.
C19_MarkerIsHeadRead ==
  \A w \in Workers :
    pc[w] \in {"pull", "log", "report", "return", "done", "panicked"} =>
      /\ Marker(w) = headRef[w]
      /\ tagRef[w] = [name |-> TagName, hash |-> headRef[w]]

\* C18: under fair scheduling every started process ends; main is at the
\* barrier with a worker that has neither finished nor ended the process
\* only while that worker has a step to take; with an empty list main
\* starts no worker, the barrier is open, no command runs and the process
\* ends with status 0.
C18_RunTerminates ==
  /\ Alive ~> ~Alive
  /\ [](mainPc = "spawn" /\ repos = 0 =>
          /\ spawned = repos /\ WaitPasses
          /\ \A r \in Repos : pc[r] = "none")
  /\ [](mainPc \in {"check", "restart", "return"} /\ repos = 0 =>
          /\ spawned = 0 /\ ~restartEmacsIsNeeded
          /\ mainPc # "restart" /\ cmds = <<>>)
  /\ [][mainPc = "return" /\ repos = 0 =>
          mainPc' = "exit" /\ exitCode' = 0 /\ cmds' = <<>>]_vars

\* C18 witness: main passed the barrier after every worker reached its
\* deferred Done, and the process ended
C18_Witness ==
  /\ mainPc = "exit" /\ exitCode = 0
  /\ repos = NRepos
  /\ \A w \in Workers : pc[w] = "done"

====
